---- MODULE Spec2Model ----
(***************************************************************************)
(* Telegram alert backend (alerts/service_backends/telegram.py).           *)
(*                                                                         *)
(* State: the MessagingServiceConfig table, the Issue table, the task      *)
(* queue's slots with each task's captured arguments and position, the     *)
(* write lock of the immediate transaction, and the wall clock.            *)
(*                                                                         *)
(* Nullable values are modelled as sequences of length at most one:        *)
(* None is <<>> and Some(v) is <<v>>.                                      *)
(***************************************************************************)
EXTENDS Integers, Sequences, FiniteSets, TLC

\* ------------------------------------------------------------------ bounds
\* Number of task slots of the queue (tasks in flight at the same time).
MaxTasks == 2
\* Number of readings of the wall clock (outcome writes that reach a record).
MaxClock == 3
\* Texts given to the composer are up to this much longer than its limit.
MaxOver == 3

\* ------------------------------------------------------- program constants
\* `if result.status_code >= 400`
HTTP_ERROR_FLOOR == 400
\* `response.text[:2000]`
RESPONSE_TEXT_LIMIT == 2000
\* `requests.post(url, json=payload, timeout=5)`
POST_TIMEOUT == 5
\* `def _truncate_message(text, max_length=4000)`
MAX_MESSAGE_LENGTH == 4000
\* `truncatechars(issue.title(), 200)`
TITLE_LIMIT == 200

\* ---------------------------------------------------------------- options
None == <<>>
Some(v) == <<v>>
IsNone(o) == o = <<>>
IsSome(o) == o # <<>>
Get(o) == o[1]

\* ----------------------------------------------------------------- inputs
Tasks == 1..MaxTasks
ConfigIds == {1, 2}
IssueIds == {7}
BotTokens == {"111:AAA", "222:BBB"}

\* Response bodies the remote endpoint (or a proxy in front of it) returns.
BODY_HTML == "<html>Bad Gateway</html>"
BODY_OK == "{\"ok\": true, \"result\": {}}"
BODY_NOT_OK_DESC == "{\"ok\": false, \"description\": \"chat not found\"}"
BODY_NOT_OK == "{\"ok\": false}"
BODY_NO_FLAG == "{}"
BODY_LIST == "[]"
BODY_NULL == "null"
BODY_EMPTY == ""
Bodies == {BODY_HTML, BODY_OK, BODY_NOT_OK_DESC, BODY_NOT_OK, BODY_NO_FLAG,
           BODY_LIST, BODY_NULL}

\* The reason phrase of the status line.
ReasonOf(status_code) ==
    CASE status_code = 200 -> "OK"
      [] status_code = 201 -> "Created"
      [] status_code = 401 -> "Unauthorized"
      [] status_code = 502 -> "Bad Gateway"
      [] OTHER -> ""

\* The (status, body) pairs of the completed responses that are enumerated.
StatusAndBody ==
    ({200} \X Bodies)
    \cup ({201} \X {BODY_NOT_OK_DESC, BODY_HTML})
    \cup ({401} \X {BODY_NOT_OK_DESC, BODY_OK, BODY_HTML})
    \cup ({502} \X {BODY_EMPTY})
    \cup ({600} \X {BODY_OK, BODY_NOT_OK, BODY_HTML})

\* What requests.post does: a completed response, or a transport exception.
Responses ==
    { [status_code |-> p[1], reason |-> ReasonOf(p[1]), text |-> p[2]] :
        p \in StatusAndBody }
TransportErrors == {"ConnectionError", "ReadTimeout"}
NetOutcomes ==
    { [kind |-> "response", exc |-> "", response |-> Some(r)] : r \in Responses }
    \cup
    { [kind |-> "transport", exc |-> e, response |-> None] : e \in TransportErrors }

\* --------------------------------------------------- json and http helpers
\* json.loads / Response.json on the bodies above: `valid` is FALSE where the
\* parser raises ValueError; `shape` is the Python type of the parsed value.
NotJson == [valid |-> FALSE, shape |-> "", ok |-> None, description |-> None]
JsonObject(ok, description) ==
    [valid |-> TRUE, shape |-> "dict", ok |-> ok, description |-> description]
\* An error body of any length: the object with ok false and a description.
DESCRIPTION_HEAD == "{\"ok\": false, \"description\": \""
DESCRIPTION_TAIL == "\"}"
IsDescriptionObject(text) ==
    /\ Len(text) >= Len(DESCRIPTION_HEAD) + Len(DESCRIPTION_TAIL)
    /\ SubSeq(text, 1, Len(DESCRIPTION_HEAD)) = DESCRIPTION_HEAD
    /\ SubSeq(text, Len(text) - Len(DESCRIPTION_TAIL) + 1, Len(text)) = DESCRIPTION_TAIL
DescriptionOf(text) ==
    SubSeq(text, Len(DESCRIPTION_HEAD) + 1, Len(text) - Len(DESCRIPTION_TAIL))

JsonLoads(text) ==
    CASE text = BODY_OK -> JsonObject(Some(TRUE), None)
      [] text = BODY_NOT_OK_DESC -> JsonObject(Some(FALSE), Some("chat not found"))
      [] text = BODY_NOT_OK -> JsonObject(Some(FALSE), None)
      [] text = BODY_NO_FLAG -> JsonObject(None, None)
      [] text = BODY_LIST ->
            [valid |-> TRUE, shape |-> "list", ok |-> None, description |-> None]
      [] text = BODY_NULL ->
            [valid |-> TRUE, shape |-> "NoneType", ok |-> None, description |-> None]
      [] IsDescriptionObject(text) -> JsonObject(Some(FALSE), Some(DescriptionOf(text)))
      [] OTHER -> NotJson

\* text[:n]
Slice(text, n) == IF Len(text) <= n THEN text ELSE SubSeq(text, 1, n)

\* url = f"https://api.telegram.org/bot{bot_token}/sendMessage"
Url(bot_token) == "https://api.telegram.org/bot" \o bot_token \o "/sendMessage"

\* An exception object: its class name, str(e), the response attached to it,
\* and whether its class derives from requests.RequestException.
Exc(type, message, response, is_request_exception) ==
    [type |-> type, message |-> message, response |-> response,
     is_request_exception |-> is_request_exception]

\* result.raise_for_status(): raises HTTPError for 400..599 only, with the
\* status, the reason phrase and the request url in the message.
RaiseForStatus(result, url) ==
    IF 400 <= result.status_code /\ result.status_code < 500
    THEN Some(Exc("HTTPError",
                  ToString(result.status_code) \o " Client Error: " \o result.reason
                      \o " for url: " \o url,
                  Some(result), TRUE))
    ELSE IF 500 <= result.status_code /\ result.status_code < 600
    THEN Some(Exc("HTTPError",
                  ToString(result.status_code) \o " Server Error: " \o result.reason
                      \o " for url: " \o url,
                  Some(result), TRUE))
    ELSE None

\* The exception requests.post raises when the call does not complete.
TransportException(exc, bot_token) ==
    IF exc = "ReadTimeout"
    THEN Exc("ReadTimeout",
             "HTTPSConnectionPool(host='api.telegram.org', port=443): Read timed out. (read timeout="
                 \o ToString(POST_TIMEOUT) \o ")",
             None, TRUE)
    ELSE Exc("ConnectionError",
             "HTTPSConnectionPool(host='api.telegram.org', port=443): Max retries exceeded with url: /bot"
                 \o bot_token \o "/sendMessage",
             None, TRUE)

\* NotOkCheck without `error.response = result`.
NotOkCheck_NoResponse(result, response_data) ==
    IF ~response_data.valid \/ response_data.shape = "NoneType"
    THEN None
    ELSE IF response_data.shape # "dict"
    THEN Some(Exc("AttributeError",
                  "'" \o response_data.shape \o "' object has no attribute 'get'",
                  None, FALSE))
    ELSE IF response_data.ok = Some(FALSE)
    THEN Some(Exc("HTTPError",
                  IF IsSome(response_data.description)
                  THEN Get(response_data.description)
                  ELSE "Telegram API error",
                  None, TRUE))
    ELSE None

\* Lines 96-101: the parsed body is asked for its "ok" key.
\* A parsed value that is no dict has no .get: AttributeError.
NotOkCheck(result, response_data) ==
    IF ~response_data.valid \/ response_data.shape = "NoneType"
    THEN None
    ELSE IF response_data.shape # "dict"
    THEN Some(Exc("AttributeError",
                  "'" \o response_data.shape \o "' object has no attribute 'get'",
                  None, FALSE))
    ELSE IF response_data.ok = Some(FALSE)
    THEN Some(Exc("HTTPError",
                  IF IsSome(response_data.description)
                  THEN Get(response_data.description)
                  ELSE "Telegram API error",
                  Some(result), TRUE))
    ELSE None

\* The try block of _send_telegram_message, lines 86-103: the exception it
\* raises, or None when it reaches _store_success_info.
TryBlock(bot_token, net) ==
    IF net.kind = "transport"
    THEN Some(TransportException(net.exc, bot_token))
    ELSE LET result == Get(net.response)
             response_data == JsonLoads(result.text)
             http_error == IF result.status_code >= HTTP_ERROR_FLOOR
                           THEN RaiseForStatus(result, Url(bot_token))
                           ELSE None
         IN  IF IsSome(http_error)
             THEN http_error
             ELSE NotOkCheck(result, response_data)

\* The except clauses, lines 104-108: what is handed to the state store.
\*   success            -> _store_success_info(service_config_id)
\*   RequestException e -> _store_failure_info(id, e, getattr(e, "response", None))
\*   Exception e        -> _store_failure_info(id, e)
Success == [success |-> TRUE, error_type |-> "", error_message |-> "", response |-> None]
Failure(e) ==
    [success |-> FALSE, error_type |-> e.type, error_message |-> e.message,
     response |-> IF e.is_request_exception THEN e.response ELSE None]
Classify(bot_token, net) ==
    LET raised == TryBlock(bot_token, net)
    IN  IF IsNone(raised) THEN Success ELSE Failure(Get(raised))

\* ------------------------------------------------------ message composer
\* TruncateMessage cutting at max_length instead of max_length - 3.
TruncateMessage_NoRoomForMarker(text, max_length) ==
    IF Len(text) <= max_length
    THEN text
    ELSE SubSeq(text, 1, max_length) \o "..."

\* _truncate_message(text, max_length)
TruncateMessage(text, max_length) ==
    IF Len(text) <= max_length
    THEN text
    ELSE SubSeq(text, 1, max_length - 3) \o "..."

\* django.template.defaultfilters.truncatechars(value, n): a longer value is
\* cut to n - 1 characters and the one-character ellipsis U+2026, written "~"
\* here.
ELLIPSIS == "~"
Truncatechars(value, n) ==
    IF Len(value) <= n THEN value ELSE SubSeq(value, 1, n - 1) \o ELLIPSIS

\* "\n".join(lines)
RECURSIVE JoinLines(_)
JoinLines(lines) ==
    IF Len(lines) = 0 THEN ""
    ELSE IF Len(lines) = 1 THEN lines[1]
    ELSE lines[1] \o "\n" \o JoinLines(Tail(lines))

\* `if unmute_reason:` : neither None nor the empty string.
Truthy(o) == IsSome(o) /\ Get(o) # ""

\* telegram_backend_send_test_message, lines 121-125.
TestLines(project_name, display_name) ==
    << "Test message by Bugsink to test the Telegram bot setup.",
       "Project: " \o project_name,
       "Message backend: " \o display_name >>

\* AlertLines with the unmute reason inserted before the URL line.
AlertLines_UnmuteBeforeUrl(alert_reason, title, project_name, issue_url, unmute_reason) ==
    << alert_reason \o " issue",
       "Issue: " \o Truncatechars(title, TITLE_LIMIT),
       "Project: " \o project_name >>
    \o (IF Truthy(unmute_reason)
        THEN << "Unmute reason: " \o Get(unmute_reason) >>
        ELSE << >>)
    \o << "URL: " \o issue_url >>

\* telegram_backend_send_alert, lines 149-156.
AlertLines(alert_reason, title, project_name, issue_url, unmute_reason) ==
    << alert_reason \o " issue",
       "Issue: " \o Truncatechars(title, TITLE_LIMIT),
       "Project: " \o project_name,
       "URL: " \o issue_url >>
    \o (IF Truthy(unmute_reason)
        THEN << "Unmute reason: " \o Get(unmute_reason) >>
        ELSE << >>)

\* payload["text"], lines 128 and 160.
TestText(project_name, display_name) ==
    TruncateMessage(JoinLines(TestLines(project_name, display_name)),
                    MAX_MESSAGE_LENGTH)
AlertText(alert_reason, title, project_name, issue_url, unmute_reason) ==
    TruncateMessage(
        JoinLines(AlertLines(alert_reason, title, project_name, issue_url,
                             unmute_reason)),
        MAX_MESSAGE_LENGTH)

\* The issue the alert is about: issue.title(), issue.project.name and
\* get_settings().BASE_URL + issue.get_absolute_url().
IssueTitle(i) == "ValueError: invalid literal for int()"
IssueProject(i) == "Acme"
IssueUrl(i) == "https://bugsink.example.org/issues/issue/" \o ToString(i) \o "/"
\* self.service_config.project.name
ProjectName(c) == "Acme"

\* ------------------------------------------------------ the state store
\* A row of MessagingServiceConfig as created by the configuration form.
NewRow(bot_token, chat_id, display_name) ==
    [config |-> [bot_token |-> bot_token, chat_id |-> chat_id],
     display_name |-> display_name,
     last_failure_timestamp |-> None,
     last_failure_error_type |-> None,
     last_failure_error_message |-> None,
     last_failure_status_code |-> None,
     last_failure_response_text |-> None,
     last_failure_is_json |-> None]

\* SetFailureFields without `config.last_failure_is_json = False` in the
\* except clause of the JSON check.
SetFailureFields_NoIsJsonFalse(config, timestamp, error_type, error_message, response) ==
    LET core == [config EXCEPT
                    !.last_failure_timestamp = Some(timestamp),
                    !.last_failure_error_type = Some(error_type),
                    !.last_failure_error_message = Some(error_message)]
    IN  IF IsSome(response)
        THEN [core EXCEPT
                !.last_failure_status_code = Some(Get(response).status_code),
                !.last_failure_response_text =
                    Some(Slice(Get(response).text, RESPONSE_TEXT_LIMIT)),
                !.last_failure_is_json =
                    IF JsonLoads(Get(response).text).valid THEN Some(TRUE) ELSE @]
        ELSE [core EXCEPT
                !.last_failure_status_code = None,
                !.last_failure_response_text = None,
                !.last_failure_is_json = None]

\* SetFailureFields without the else branch for non-HTTP errors: the response
\* fields keep what an earlier attempt left.
SetFailureFields_KeepResponse(config, timestamp, error_type, error_message, response) ==
    LET core == [config EXCEPT
                    !.last_failure_timestamp = Some(timestamp),
                    !.last_failure_error_type = Some(error_type),
                    !.last_failure_error_message = Some(error_message)]
    IN  IF IsSome(response)
        THEN [core EXCEPT
                !.last_failure_status_code = Some(Get(response).status_code),
                !.last_failure_response_text =
                    Some(Slice(Get(response).text, RESPONSE_TEXT_LIMIT)),
                !.last_failure_is_json = Some(JsonLoads(Get(response).text).valid)]
        ELSE core

\* SetFailureFields with the JSON check made on the stored, cut text.
SetFailureFields_JsonOfCutText(config, timestamp, error_type, error_message, response) ==
    LET core == [config EXCEPT
                    !.last_failure_timestamp = Some(timestamp),
                    !.last_failure_error_type = Some(error_type),
                    !.last_failure_error_message = Some(error_message)]
    IN  IF IsSome(response)
        THEN [core EXCEPT
                !.last_failure_status_code = Some(Get(response).status_code),
                !.last_failure_response_text =
                    Some(Slice(Get(response).text, RESPONSE_TEXT_LIMIT)),
                !.last_failure_is_json =
                    Some(JsonLoads(Slice(Get(response).text, RESPONSE_TEXT_LIMIT)).valid)]
        ELSE [core EXCEPT
                !.last_failure_status_code = None,
                !.last_failure_response_text = None,
                !.last_failure_is_json = None]

\* Lines 42-61 of _store_failure_info: the assignments to the loaded object.
SetFailureFields(config, timestamp, error_type, error_message, response) ==
    LET core == [config EXCEPT
                    !.last_failure_timestamp = Some(timestamp),
                    !.last_failure_error_type = Some(error_type),
                    !.last_failure_error_message = Some(error_message)]
    IN  IF IsSome(response)
        THEN [core EXCEPT
                !.last_failure_status_code = Some(Get(response).status_code),
                !.last_failure_response_text =
                    Some(Slice(Get(response).text, RESPONSE_TEXT_LIMIT)),
                !.last_failure_is_json = Some(JsonLoads(Get(response).text).valid)]
        ELSE [core EXCEPT
                !.last_failure_status_code = None,
                !.last_failure_response_text = None,
                !.last_failure_is_json = None]

\* MessagingServiceConfig.clear_failure_status(): clears all failure fields.
ClearFailureStatus(config) ==
    [config EXCEPT
        !.last_failure_timestamp = None,
        !.last_failure_error_type = None,
        !.last_failure_error_message = None,
        !.last_failure_status_code = None,
        !.last_failure_response_text = None,
        !.last_failure_is_json = None]

\* ------------------------------------------------------------------ state
VARIABLES
    store,      \* MessagingServiceConfig table: id -> None | Some(row)
    issues,     \* ids of the rows of the Issue table
    pc,         \* position of the task in each queue slot
    args,       \* the plain arguments the facade passed to .delay()
    net,        \* what requests.post did for the task: None | Some(outcome)
    outcome,    \* what _send_telegram_message hands to the state store
    loaded,     \* the row MessagingServiceConfig.objects.get returned to the task
    txOwner,    \* the task inside `with immediate_atomic(...)`: None | Some(t)
    now,        \* the wall clock, timezone.now()
    writes,     \* per task: how many times it saved the failure-field group
    posts,      \* per task: how many times it called requests.post
    sent,       \* per task: the url and the payload of its POST: None | Some
    cin,        \* the message composer taken alone: its input
    cout        \* the message composer taken alone: None | Some(text)

vars == <<store, issues, pc, args, net, outcome, loaded, txOwner, now, writes,
          posts, sent, cin, cout>>

NoArgs ==
    [kind |-> "", bot_token |-> "", chat_id |-> "", service_config_id |-> 0,
     issue_id |-> 0, project_name |-> "", display_name |-> "",
     alert_reason |-> "", unmute_reason |-> None]

\* The composer has no input.
NoInput ==
    [kind |-> "", text |-> "", alert_reason |-> "", title |-> "",
     project_name |-> "", display_name |-> "", issue_url |-> "",
     unmute_reason |-> None]

DisplayName(c) == IF c = 1 THEN "Prod Alerts" ELSE "Staging Alerts"

\* The tables as the configuration form and the issue tracker left them, the
\* queue empty.
MachineInit ==
    /\ store = [c \in ConfigIds |-> Some(NewRow("111:AAA", "@alerts", DisplayName(c)))]
    /\ issues = IssueIds
    /\ pc = [t \in Tasks |-> "idle"]
    /\ args = [t \in Tasks |-> NoArgs]
    /\ net = [t \in Tasks |-> None]
    /\ outcome = [t \in Tasks |-> None]
    /\ loaded = [t \in Tasks |-> None]
    /\ txOwner = None
    /\ now = 0
    /\ writes = [t \in Tasks |-> 0]
    /\ posts = [t \in Tasks |-> 0]
    /\ sent = [t \in Tasks |-> None]

Init ==
    /\ MachineInit
    /\ cin = NoInput
    /\ cout = None

\* The url and the json payload of the POST, lines 84, 126-130 and 158-162.
Request(a) ==
    [url |-> Url(a.bot_token),
     chat_id |-> a.chat_id,
     text |-> IF a.kind = "test"
              THEN TestText(a.project_name, a.display_name)
              ELSE AlertText(a.alert_reason, IssueTitle(a.issue_id),
                             IssueProject(a.issue_id), IssueUrl(a.issue_id),
                             a.unmute_reason),
     disable_web_page_preview |-> TRUE]

\* ----------------------------------------------------------- the facade
\* Enqueue with the facade delivering on the caller's thread: the POST is made
\* before the facade returns.
Enqueue_PostsInline(t, a) ==
    /\ pc[t] = "idle"
    /\ pc' = [pc EXCEPT ![t] = "queued"]
    /\ args' = [args EXCEPT ![t] = a]
    /\ writes' = [writes EXCEPT ![t] = 0]
    /\ posts' = [posts EXCEPT ![t] = @ + 1]
    /\ sent' = [sent EXCEPT ![t] = Some(Request(a))]
    /\ UNCHANGED <<store, issues, net, outcome, loaded, txOwner, now, cin, cout>>

\* .delay(...): the queue takes the task with the arguments as captured.
Enqueue(t, a) ==
    /\ pc[t] = "idle"
    /\ pc' = [pc EXCEPT ![t] = "queued"]
    /\ args' = [args EXCEPT ![t] = a]
    /\ writes' = [writes EXCEPT ![t] = 0]
    /\ UNCHANGED <<store, issues, net, outcome, loaded, txOwner, now, posts, sent, cin, cout>>

\* TelegramBackend(service_config).send_test_message()
SendTestMessage(t, c) ==
    /\ IsSome(store[c])
    /\ LET config == Get(store[c]).config
       IN  Enqueue(t, [kind |-> "test", bot_token |-> config.bot_token,
                       chat_id |-> config.chat_id, service_config_id |-> c,
                       issue_id |-> 0, project_name |-> ProjectName(c),
                       display_name |-> Get(store[c]).display_name,
                       alert_reason |-> "", unmute_reason |-> None])

\* TelegramBackend(service_config).send_alert(issue_id, ...) for a new issue;
\* state_description and alert_article are passed on and never read.
SendAlert(t, c, issue_id) ==
    /\ IsSome(store[c])
    /\ issue_id \in issues
    /\ LET config == Get(store[c]).config
       IN  Enqueue(t, [kind |-> "alert", bot_token |-> config.bot_token,
                       chat_id |-> config.chat_id, service_config_id |-> c,
                       issue_id |-> issue_id, project_name |-> "",
                       display_name |-> "", alert_reason |-> "New",
                       unmute_reason |-> None])

\* ------------------------------------------------------------ the tasks
\* telegram_backend_send_alert, line 146: Issue.objects.get(id=issue_id)
\* raises Issue.DoesNotExist outside of any try block; the task ends there.
IssueLookupFails(a) == a.kind = "alert" /\ a.issue_id \notin issues

TaskRaises(t) ==
    /\ pc[t] = "queued"
    /\ IssueLookupFails(args[t])
    /\ pc' = [pc EXCEPT ![t] = "raised"]
    /\ UNCHANGED <<store, issues, args, net, outcome, loaded, txOwner, now, writes, posts, sent, cin, cout>>

\* TaskSend with the task reading the credential and the channel from the
\* record when it runs, in place of the arguments it was enqueued with.
TaskSend_ReadsRecord(t, n) ==
    LET c == args[t].service_config_id
        a == IF IsSome(store[c])
             THEN [args[t] EXCEPT !.bot_token = Get(store[c]).config.bot_token,
                                  !.chat_id = Get(store[c]).config.chat_id]
             ELSE args[t]
    IN  /\ pc[t] = "queued"
        /\ ~IssueLookupFails(args[t])
        /\ pc' = [pc EXCEPT ![t] = "classified"]
        /\ posts' = [posts EXCEPT ![t] = @ + 1]
        /\ sent' = [sent EXCEPT ![t] = Some(Request(a))]
        /\ net' = [net EXCEPT ![t] = Some(n)]
        /\ outcome' = [outcome EXCEPT ![t] = Some(Classify(a.bot_token, n))]
        /\ UNCHANGED <<store, issues, args, loaded, txOwner, now, writes, cin, cout>>

\* TaskSend with a retry: a failed POST is sent a second time.
TaskSend_Retries(t, n) ==
    /\ pc[t] = "queued"
    /\ ~IssueLookupFails(args[t])
    /\ pc' = [pc EXCEPT ![t] = "classified"]
    /\ posts' = [posts EXCEPT ![t] =
                    IF Classify(args[t].bot_token, n).success THEN @ + 1 ELSE @ + 2]
    /\ sent' = [sent EXCEPT ![t] = Some(Request(args[t]))]
    /\ net' = [net EXCEPT ![t] = Some(n)]
    /\ outcome' = [outcome EXCEPT ![t] = Some(Classify(args[t].bot_token, n))]
    /\ UNCHANGED <<store, issues, args, loaded, txOwner, now, writes, cin, cout>>

\* Both tasks up to the end of the try block of _send_telegram_message:
\* compose the payload, POST it, classify what came back.
TaskSend(t, n) ==
    /\ pc[t] = "queued"
    /\ ~IssueLookupFails(args[t])
    /\ pc' = [pc EXCEPT ![t] = "classified"]
    /\ posts' = [posts EXCEPT ![t] = @ + 1]
    /\ sent' = [sent EXCEPT ![t] = Some(Request(args[t]))]
    /\ net' = [net EXCEPT ![t] = Some(n)]
    /\ outcome' = [outcome EXCEPT ![t] = Some(Classify(args[t].bot_token, n))]
    /\ UNCHANGED <<store, issues, args, loaded, txOwner, now, writes, cin, cout>>

\* `with immediate_atomic(only_if_needed=True)`: the transaction takes the
\* database's write lock when it begins and holds it until it ends.
LockFree == IsNone(txOwner)

\* StoreMiss with get_or_create in place of get: the lookup miss makes a row.
StoreMiss_Creates(t) ==
    /\ pc[t] = "classified"
    /\ LockFree
    /\ IsNone(store[args[t].service_config_id])
    /\ pc' = [pc EXCEPT ![t] = "done"]
    /\ store' = [store EXCEPT ![args[t].service_config_id] =
                    Some(NewRow(args[t].bot_token, args[t].chat_id, ""))]
    /\ UNCHANGED <<issues, args, net, outcome, loaded, txOwner, now, writes, posts, sent, cin, cout>>

\* _store_failure_info / _store_success_info, lines 38-40 and 73-75, when
\* objects.get raises DoesNotExist: the except clause passes.
StoreMiss(t) ==
    /\ pc[t] = "classified"
    /\ LockFree
    /\ IsNone(store[args[t].service_config_id])
    /\ pc' = [pc EXCEPT ![t] = "done"]
    /\ UNCHANGED <<store, issues, args, net, outcome, loaded, txOwner, now, writes, posts, sent, cin, cout>>

\* StoreGet without `with immediate_atomic(...)` around the lookup and the
\* save: the row is loaded and no lock is held until the save.
StoreGet_NoTransaction(t) ==
    /\ pc[t] = "classified"
    /\ LockFree
    /\ now < MaxClock
    /\ IsSome(store[args[t].service_config_id])
    /\ loaded' = [loaded EXCEPT ![t] = store[args[t].service_config_id]]
    /\ pc' = [pc EXCEPT ![t] = "in_tx"]
    /\ UNCHANGED <<store, issues, args, net, outcome, txOwner, now, writes, posts, sent, cin, cout>>

\* Lines 38-40 and 73-75 when the row exists: begin the transaction, load it.
StoreGet(t) ==
    /\ pc[t] = "classified"
    /\ LockFree
    /\ now < MaxClock
    /\ IsSome(store[args[t].service_config_id])
    /\ txOwner' = Some(t)
    /\ loaded' = [loaded EXCEPT ![t] = store[args[t].service_config_id]]
    /\ pc' = [pc EXCEPT ![t] = "in_tx"]
    /\ UNCHANGED <<store, issues, args, net, outcome, now, writes, posts, sent, cin, cout>>

\* Modified without the call of clear_failure_status on success.
Modified_NoClear(config, o, timestamp) ==
    IF o.success
    THEN config
    ELSE SetFailureFields(config, timestamp, o.error_type, o.error_message, o.response)

\* The object as _store_failure_info / _store_success_info leaves it before
\* config.save().
Modified(config, o, timestamp) ==
    IF o.success
    THEN ClearFailureStatus(config)
    ELSE SetFailureFields(config, timestamp, o.error_type, o.error_message, o.response)

\* Lines 42-63 and 76-77: set or clear the fields, config.save() writes every
\* column of the row, the transaction commits.
StoreSave(t) ==
    /\ pc[t] = "in_tx"
    /\ now' = now + 1
    /\ store' = [store EXCEPT ![args[t].service_config_id] =
                    Some(Modified(Get(loaded[t]), Get(outcome[t]), now'))]
    /\ writes' = [writes EXCEPT ![t] = @ + 1]
    /\ txOwner' = None
    /\ pc' = [pc EXCEPT ![t] = "done"]
    /\ UNCHANGED <<issues, args, net, outcome, loaded, posts, sent, cin, cout>>

\* The queue is done with the task; the slot is free again.
TaskReturn(t) ==
    /\ pc[t] \in {"done", "raised"}
    /\ pc' = [pc EXCEPT ![t] = "idle"]
    /\ args' = [args EXCEPT ![t] = NoArgs]
    /\ net' = [net EXCEPT ![t] = None]
    /\ outcome' = [outcome EXCEPT ![t] = None]
    /\ loaded' = [loaded EXCEPT ![t] = None]
    /\ writes' = [writes EXCEPT ![t] = 0]
    /\ posts' = [posts EXCEPT ![t] = 0]
    /\ sent' = [sent EXCEPT ![t] = None]
    /\ UNCHANGED <<store, issues, txOwner, now, cin, cout>>

\* ------------------------------------------------------ the environment
\* An operator deletes the configuration record.
DeleteRecord(c) ==
    /\ LockFree
    /\ IsSome(store[c])
    /\ store' = [store EXCEPT ![c] = None]
    /\ UNCHANGED <<issues, pc, args, net, outcome, loaded, txOwner, now, writes, posts, sent, cin, cout>>

\* An operator saves the configuration form with another bot token.
EditRecord(c, bot_token) ==
    /\ LockFree
    /\ IsSome(store[c])
    /\ Get(store[c]).config.bot_token # bot_token
    /\ store' = [store EXCEPT ![c] =
                    Some([Get(store[c]) EXCEPT !.config.bot_token = bot_token])]
    /\ UNCHANGED <<issues, pc, args, net, outcome, loaded, txOwner, now, writes, posts, sent, cin, cout>>

\* An operator saves the configuration form with another chat id.
ChatIds == {"@alerts", "@ops"}

EditChat(c, chat_id) ==
    /\ LockFree
    /\ IsSome(store[c])
    /\ Get(store[c]).config.chat_id # chat_id
    /\ store' = [store EXCEPT ![c] =
                    Some([Get(store[c]) EXCEPT !.config.chat_id = chat_id])]
    /\ UNCHANGED <<issues, pc, args, net, outcome, loaded, txOwner, now, writes, posts, sent, cin, cout>>

\* The issue is deleted.
DeleteIssue(i) ==
    /\ i \in issues
    /\ issues' = issues \ {i}
    /\ UNCHANGED <<store, pc, args, net, outcome, loaded, txOwner, now, writes, posts, sent, cin, cout>>

\* --------------------------------------------------------- specifications
\* One worker delivers test messages and alerts for one record; the remote
\* endpoint gives every enumerated reply; operators edit and delete.
Workers == {1}
Records == {1}

Next ==
    \/ \E t \in Workers, c \in Records : SendTestMessage(t, c)
    \/ \E t \in Workers, c \in Records, i \in IssueIds : SendAlert(t, c, i)
    \/ \E t \in Workers : TaskRaises(t)
    \/ \E t \in Workers, n \in NetOutcomes : TaskSend(t, n)
    \/ \E t \in Workers : StoreMiss(t)
    \/ \E t \in Workers : StoreGet(t)
    \/ \E t \in Workers : StoreSave(t)
    \/ \E t \in Workers : TaskReturn(t)
    \/ \E c \in Records : DeleteRecord(c)
    \/ \E c \in Records, b \in BotTokens : EditRecord(c, b)
    \/ \E i \in IssueIds : DeleteIssue(i)

Spec == Init /\ [][Next]_vars

\* Several workers deliver test messages for the same record at the same
\* time; the remote endpoint accepts, rejects or does not answer.
ConcurrentNets ==
    { n \in NetOutcomes :
        \/ n.kind = "transport" /\ n.exc = "ReadTimeout"
        \/ n.kind = "response" /\ Get(n.response).status_code = 200
                               /\ Get(n.response).text = BODY_OK
        \/ n.kind = "response" /\ Get(n.response).status_code = 401
                               /\ Get(n.response).text = BODY_NOT_OK_DESC }

NextConcurrent ==
    \/ \E t \in Tasks, c \in Records : SendTestMessage(t, c)
    \/ \E t \in Tasks, n \in ConcurrentNets : TaskSend(t, n)
    \/ \E t \in Tasks : StoreMiss(t)
    \/ \E t \in Tasks : StoreGet(t)
    \/ \E t \in Tasks : StoreSave(t)
    \/ \E t \in Tasks : TaskReturn(t)
    \/ \E c \in Records : DeleteRecord(c)

SpecConcurrent == Init /\ [][NextConcurrent]_vars

\* One worker delivers test messages and alerts for two records while
\* operators edit the records' credentials and channels and delete records.
NextOperators ==
    \/ \E t \in Workers, c \in ConfigIds : SendTestMessage(t, c)
    \/ \E t \in Workers, c \in ConfigIds, i \in IssueIds : SendAlert(t, c, i)
    \/ \E t \in Workers, n \in ConcurrentNets : TaskSend(t, n)
    \/ \E t \in Workers : StoreMiss(t)
    \/ \E t \in Workers : StoreGet(t)
    \/ \E t \in Workers : StoreSave(t)
    \/ \E t \in Workers : TaskReturn(t)
    \/ \E c \in ConfigIds : DeleteRecord(c)
    \/ \E c \in ConfigIds, b \in BotTokens : EditRecord(c, b)
    \/ \E c \in ConfigIds, ch \in ChatIds : EditChat(c, ch)

SpecOperators == Init /\ [][NextOperators]_vars

\* The message composer taken alone, on texts around its limit, on alerts
\* with and without an unmute reason, and on test messages.
Block == "abcdefghijklmnop"
Twice(text) == text \o text
LongText == Twice(Twice(Twice(Twice(Twice(Twice(Twice(Twice(Twice(Block)))))))))
\* The text of n characters.
Text(n) == SubSeq(LongText, 1, n)

TextInputs ==
    { [NoInput EXCEPT !.kind = "text", !.text = Text(n)] :
        n \in 0..(MAX_MESSAGE_LENGTH + MaxOver) }
UnmuteReasons ==
    {None, Some(""), Some("More than 5 events per minute"),
     Some(Text(MAX_MESSAGE_LENGTH))}
AlertInputs ==
    { [NoInput EXCEPT !.kind = "alert", !.alert_reason = r, !.title = ti,
                      !.project_name = "Acme", !.issue_url = IssueUrl(7),
                      !.unmute_reason = u] :
        r \in {"New", "Regressed", "Unmuted"},
        ti \in {IssueTitle(7), Text(TITLE_LIMIT), Text(TITLE_LIMIT + 1)},
        u \in UnmuteReasons }
TestInputs ==
    { [NoInput EXCEPT !.kind = "test", !.project_name = "Acme", !.display_name = d] :
        d \in {DisplayName(c) : c \in ConfigIds} }

machine == <<store, issues, pc, args, net, outcome, loaded, txOwner, now, writes,
             posts, sent>>

InitComposer ==
    /\ MachineInit
    /\ cin \in TextInputs \cup AlertInputs \cup TestInputs
    /\ cout = None

\* _truncate_message(text) with the default limit.
TruncateText ==
    /\ cin.kind = "text"
    /\ cout = None
    /\ cout' = Some(TruncateMessage(cin.text, MAX_MESSAGE_LENGTH))
    /\ UNCHANGED <<machine, cin>>

\* payload["text"] of telegram_backend_send_alert.
ComposeAlert ==
    /\ cin.kind = "alert"
    /\ cout = None
    /\ cout' = Some(AlertText(cin.alert_reason, cin.title, cin.project_name,
                              cin.issue_url, cin.unmute_reason))
    /\ UNCHANGED <<machine, cin>>

\* payload["text"] of telegram_backend_send_test_message.
ComposeTest ==
    /\ cin.kind = "test"
    /\ cout = None
    /\ cout' = Some(TestText(cin.project_name, cin.display_name))
    /\ UNCHANGED <<machine, cin>>

NextComposer == TruncateText \/ ComposeAlert \/ ComposeTest

SpecComposer == InitComposer /\ [][NextComposer]_vars

\* One worker delivers test messages for one record; the remote endpoint
\* rejects them with bodies around the limit of the stored response text, JSON
\* and not, or does not answer.
LongJsonBody(n) ==
    DESCRIPTION_HEAD \o Text(n - Len(DESCRIPTION_HEAD) - Len(DESCRIPTION_TAIL))
        \o DESCRIPTION_TAIL
LongHtmlBody(n) == "<html>" \o Text(n - 6)
LongBodyLengths == (RESPONSE_TEXT_LIMIT - 1)..(RESPONSE_TEXT_LIMIT + MaxOver)
LongJsonBodies == {LongJsonBody(n) : n \in LongBodyLengths}
LongHtmlBodies == {LongHtmlBody(n) : n \in LongBodyLengths}
LongBodyNets ==
    { [kind |-> "response", exc |-> "",
       response |-> Some([status_code |-> p[1], reason |-> ReasonOf(p[1]), text |-> p[2]])] :
        p \in ({401} \X (LongJsonBodies \cup LongHtmlBodies)) \cup ({200} \X LongJsonBodies) }
    \cup
    { [kind |-> "transport", exc |-> "ReadTimeout", response |-> None] }

NextLongBody ==
    \/ \E t \in Workers, c \in Records : SendTestMessage(t, c)
    \/ \E t \in Workers, n \in LongBodyNets : TaskSend(t, n)
    \/ \E t \in Workers : StoreGet(t)
    \/ \E t \in Workers : StoreSave(t)
    \/ \E t \in Workers : TaskReturn(t)

SpecLongBody == Init /\ [][NextLongBody]_vars

\* ------------------------------------------------------------- properties
\* The record a task writes to, the reply it got, what it hands to the store.
RowOf(t) == Get(store[args[t].service_config_id])
RecordExists(t) == IsSome(store[args[t].service_config_id])
Reply(t) == Get(net[t])
Handed(t) == Get(outcome[t])
\* The task has returned after saving the record.
Wrote(t) == pc[t] = "done" /\ writes[t] = 1 /\ RecordExists(t)
GotResponse(t) == IsSome(net[t]) /\ Reply(t).kind = "response"
GotTransportError(t) == IsSome(net[t]) /\ Reply(t).kind = "transport"
\* The enumerated bodies that are JSON documents.
JsonBodies == {BODY_OK, BODY_NOT_OK_DESC, BODY_NOT_OK, BODY_NO_FLAG, BODY_LIST, BODY_NULL}

CoreFields(row) ==
    <<row.last_failure_timestamp, row.last_failure_error_type,
      row.last_failure_error_message>>
ResponseFields(row) ==
    <<row.last_failure_status_code, row.last_failure_response_text,
      row.last_failure_is_json>>
AllNull(fields) == \A i \in DOMAIN fields : IsNone(fields[i])
AllSet(fields) == \A i \in DOMAIN fields : IsSome(fields[i])

\* C1 as stated: in every state every record has its six failure-tracking
\* fields all null or all populated.
C1_AllNullOrAllPopulated ==
    \A c \in ConfigIds :
        IsSome(store[c]) =>
            LET row == Get(store[c])
            IN  \/ AllNull(CoreFields(row) \o ResponseFields(row))
                \/ AllSet(CoreFields(row) \o ResponseFields(row))

\* C1 amended: timestamp, error type and error message are all null or all
\* populated; status code, response text and is_json are all null or all
\* populated, and are populated only when the first three are.
C1_GroupsConsistent ==
    \A c \in ConfigIds :
        IsSome(store[c]) =>
            LET row == Get(store[c])
            IN  /\ AllNull(CoreFields(row)) \/ AllSet(CoreFields(row))
                /\ AllNull(ResponseFields(row)) \/ AllSet(ResponseFields(row))
                /\ AllSet(ResponseFields(row)) => AllSet(CoreFields(row))

\* An unexpected exception was written over the full snapshot of an HTTP
\* failure: three fields populated, three null.
C1_Witness ==
    \E t \in Tasks :
        /\ Wrote(t)
        /\ GotResponse(t)
        /\ Handed(t).error_type = "AttributeError"
        /\ AllSet(CoreFields(Get(loaded[t])) \o ResponseFields(Get(loaded[t])))
        /\ AllSet(CoreFields(RowOf(t)))
        /\ AllNull(ResponseFields(RowOf(t)))

\* C2 as stated: no execution of a queued delivery task ends by propagating
\* an exception to the task queue.
C2_NoTaskPropagates == \A t \in Tasks : pc[t] # "raised"

\* C3 as stated: every execution of a delivery task whose record exists
\* writes the failure-field group exactly once, whether the task met an
\* error or not.
C3_ExactlyOneWritePerAttempt ==
    \A t \in Tasks :
        (pc[t] \in {"done", "raised"} /\ RecordExists(t)) => writes[t] = 1

\* The failure-field group of a row.
FailureGroup(row) ==
    [last_failure_timestamp |-> row.last_failure_timestamp,
     last_failure_error_type |-> row.last_failure_error_type,
     last_failure_error_message |-> row.last_failure_error_message,
     last_failure_status_code |-> row.last_failure_status_code,
     last_failure_response_text |-> row.last_failure_response_text,
     last_failure_is_json |-> row.last_failure_is_json]

\* The six fields an attempt that hands o to the store at time ts writes.
ExpectedGroup(o, ts) ==
    IF o.success
    THEN [last_failure_timestamp |-> None,
          last_failure_error_type |-> None,
          last_failure_error_message |-> None,
          last_failure_status_code |-> None,
          last_failure_response_text |-> None,
          last_failure_is_json |-> None]
    ELSE [last_failure_timestamp |-> Some(ts),
          last_failure_error_type |-> Some(o.error_type),
          last_failure_error_message |-> Some(o.error_message),
          last_failure_status_code |->
              IF IsSome(o.response) THEN Some(Get(o.response).status_code) ELSE None,
          last_failure_response_text |->
              IF IsSome(o.response) THEN Some(Get(o.response).text) ELSE None,
          last_failure_is_json |->
              IF IsSome(o.response)
              THEN Some(Get(o.response).text \in JsonBodies)
              ELSE None]

\* C4: with attempts for the same record running at the same time, every
\* outcome write installs the complete snapshot of the attempt that makes it,
\* and the failure-field group changes in no other step: the group is always
\* the snapshot of one attempt, the last writer, never a mix of two.
C4_LastWriterWins ==
    [][ /\ \A t \in Tasks :
            (pc[t] = "in_tx" /\ pc'[t] = "done") =>
                /\ IsSome(store'[args[t].service_config_id])
                /\ FailureGroup(Get(store'[args[t].service_config_id]))
                       = ExpectedGroup(Handed(t), now')
        /\ \A c \in ConfigIds :
            ( /\ IsSome(store[c])
              /\ IsSome(store'[c])
              /\ FailureGroup(Get(store'[c])) # FailureGroup(Get(store[c])) ) =>
                \E t \in Tasks :
                    /\ args[t].service_config_id = c
                    /\ pc[t] = "in_tx"
                    /\ pc'[t] = "done"
      ]_vars

\* Two attempts for the same record have both written, a transport failure
\* after an HTTP failure; the record holds the later one's snapshot alone.
C4_Witness ==
    \E t1, t2 \in Tasks :
        /\ t1 # t2
        /\ args[t1].service_config_id = args[t2].service_config_id
        /\ Wrote(t1) /\ Wrote(t2)
        /\ GotTransportError(t1)
        /\ GotResponse(t2) /\ ~Handed(t2).success
        /\ FailureGroup(Get(loaded[t1])) = ExpectedGroup(Handed(t2), now - 1)
        /\ FailureGroup(RowOf(t1)) = ExpectedGroup(Handed(t1), now)

\* C5: a successful attempt leaves every failure-tracking field of its record
\* null, whatever the record held before.
C5_SuccessClears ==
    \A t \in Tasks :
        (Wrote(t) /\ Handed(t).success) =>
            AllNull(CoreFields(RowOf(t)) \o ResponseFields(RowOf(t)))

\* A success was written to a record that held the full snapshot of a failure.
C5_Witness ==
    \E t \in Tasks :
        /\ Wrote(t)
        /\ Handed(t).success
        /\ AllSet(CoreFields(Get(loaded[t])) \o ResponseFields(Get(loaded[t])))
        /\ AllNull(CoreFields(RowOf(t)) \o ResponseFields(RowOf(t)))

\* C6: an outcome write, of a failure or of a success, that finds no record
\* with its correlation id returns normally, creates no record and leaves the
\* whole table as it is.
C6_MissingRecordIsNoOp ==
    [][ \A t \in Tasks :
            ( /\ pc[t] = "classified"
              /\ pc'[t] # "classified"
              /\ IsNone(store[args[t].service_config_id]) ) =>
                /\ pc'[t] = "done"
                /\ store' = store
                /\ writes'[t] = 0
      ]_vars

\* A failure write and a success write both returned on a deleted record.
C6_Witness ==
    \E t1, t2 \in Tasks :
        /\ pc[t1] = "done" /\ pc[t2] = "done"
        /\ writes[t1] = 0 /\ writes[t2] = 0
        /\ ~RecordExists(t1) /\ ~RecordExists(t2)
        /\ Handed(t1).success
        /\ ~Handed(t2).success

\* C7 as stated: every response with status >= 400, whatever its body, is
\* recorded as a failure with that status code, the body text and whether the
\* body is JSON.
C7_ErrorStatusIsFailure ==
    \A t \in Tasks :
        (Wrote(t) /\ GotResponse(t)
              /\ Get(Reply(t).response).status_code >= 400) =>
            /\ ~Handed(t).success
            /\ RowOf(t).last_failure_status_code = Some(Get(Reply(t).response).status_code)
            /\ RowOf(t).last_failure_response_text = Some(Get(Reply(t).response).text)
            /\ RowOf(t).last_failure_is_json = Some(Get(Reply(t).response).text \in JsonBodies)

\* C8: a response with status below 400 whose body carries ok = false is
\* recorded as a failure with the response's status code and body, and with
\* the body's description as message, or 'Telegram API error' without one.
C8_NotOkIsFailure ==
    \A t \in Tasks :
        (Wrote(t) /\ GotResponse(t)
              /\ Get(Reply(t).response).status_code < 400
              /\ Get(Reply(t).response).text \in {BODY_NOT_OK, BODY_NOT_OK_DESC}) =>
            /\ ~Handed(t).success
            /\ IsSome(RowOf(t).last_failure_timestamp)
            /\ RowOf(t).last_failure_status_code = Some(Get(Reply(t).response).status_code)
            /\ RowOf(t).last_failure_response_text = Some(Get(Reply(t).response).text)
            /\ RowOf(t).last_failure_error_message =
                   Some(IF Get(Reply(t).response).text = BODY_NOT_OK_DESC
                        THEN "chat not found"
                        ELSE "Telegram API error")

\* HTTP 200 with {"ok": false} and no description was recorded.
C8_Witness ==
    \E t \in Tasks :
        /\ Wrote(t)
        /\ GotResponse(t)
        /\ Get(Reply(t).response).status_code = 200
        /\ Get(Reply(t).response).text = BODY_NOT_OK
        /\ RowOf(t).last_failure_status_code = Some(200)
        /\ RowOf(t).last_failure_error_message = Some("Telegram API error")

\* C9 as stated: every response with status below 400 that carries no
\* ok = false flag, whatever the shape of its body, is classified as success
\* and clears the failure fields.
C9_NoFlagIsSuccess ==
    \A t \in Tasks :
        (pc[t] \in {"classified", "in_tx", "done"} /\ GotResponse(t)
              /\ Get(Reply(t).response).status_code < 400
              /\ Get(Reply(t).response).text \notin {BODY_NOT_OK, BODY_NOT_OK_DESC}) =>
            /\ Handed(t).success
            /\ Wrote(t) => AllNull(CoreFields(RowOf(t)) \o ResponseFields(RowOf(t)))

\* C10: an outbound call that does not complete is recorded as a failure with
\* status code, response text and is_json null together, and with timestamp,
\* error type (the transport exception's class name) and message set.
C10_TransportFailure ==
    \A t \in Tasks :
        (Wrote(t) /\ GotTransportError(t)) =>
            /\ AllNull(ResponseFields(RowOf(t)))
            /\ AllSet(CoreFields(RowOf(t)))
            /\ RowOf(t).last_failure_error_type = Some(Reply(t).exc)

\* A read timeout was recorded over the full snapshot of an HTTP failure.
C10_Witness ==
    \E t \in Tasks :
        /\ Wrote(t)
        /\ GotTransportError(t)
        /\ Reply(t).exc = "ReadTimeout"
        /\ AllSet(ResponseFields(Get(loaded[t])))
        /\ AllNull(ResponseFields(RowOf(t)))
        /\ RowOf(t).last_failure_error_type = Some("ReadTimeout")

\* C11: the result of _truncate_message with the composer's limit M is at most
\* M long; a text of at most M characters is returned unchanged; a longer one
\* gives exactly M characters, the first M - 3 of the text followed by '...'.
C11_TruncateMessage ==
    (cin.kind = "text" /\ IsSome(cout)) =>
        LET text == cin.text
            result == Get(cout)
            M == MAX_MESSAGE_LENGTH
        IN  /\ Len(result) <= M
            /\ Len(text) <= M => result = text
            /\ Len(text) > M =>
                  /\ Len(result) = M
                  /\ SubSeq(result, 1, M - 3) = SubSeq(text, 1, M - 3)
                  /\ SubSeq(result, M - 2, M) = "..."

\* A text one character over the limit was cut to the limit.
C11_Witness ==
    /\ cin.kind = "text"
    /\ Len(cin.text) = MAX_MESSAGE_LENGTH + 1
    /\ IsSome(cout)
    /\ Len(Get(cout)) = MAX_MESSAGE_LENGTH
    /\ Get(cout) # cin.text

\* ---------------------------------------------------------------- C12
\* The failure-tracking fields of the record c, None when it is deleted.
FailureFieldsOf(st, c) ==
    IF IsSome(st[c]) THEN Some(FailureGroup(Get(st[c]))) ELSE None

\* The step in which a facade method returns: a queue slot is taken.
Submits(t) == pc[t] = "idle" /\ pc'[t] # "idle"

\* C12: a call of send_test_message or send_alert only submits work: the step
\* enqueues exactly one task that carries the id of an existing record and that
\* record's credential and channel, makes no POST and leaves every record as
\* it is; the failure-tracking fields of a record change only in the step in
\* which a task run by the queue commits its outcome write.
C12_FacadeOnlySubmits ==
    [][ /\ \A t \in Tasks :
              Submits(t) =>
                  /\ pc'[t] = "queued"
                  /\ \A u \in Tasks \ {t} : pc'[u] = pc[u] /\ args'[u] = args[u]
                  /\ \E c \in ConfigIds :
                        /\ IsSome(store[c])
                        /\ args'[t].service_config_id = c
                        /\ args'[t].bot_token = Get(store[c]).config.bot_token
                        /\ args'[t].chat_id = Get(store[c]).config.chat_id
                  /\ posts' = posts /\ sent' = sent /\ net' = net
                  /\ outcome' = outcome
                  /\ store' = store
        /\ \A c \in ConfigIds :
              (IsSome(store'[c]) /\ FailureFieldsOf(store', c) # FailureFieldsOf(store, c)) =>
                  \E t \in Tasks : /\ pc[t] = "in_tx" /\ pc'[t] = "done"
                                   /\ args[t].service_config_id = c
      ]_vars

\* A facade call has returned for the second record, which holds the failure
\* snapshot of an earlier attempt: the task is queued and has sent nothing.
C12_Witness ==
    \E t \in Tasks :
        /\ pc[t] = "queued"
        /\ args[t].service_config_id = 2
        /\ posts[t] = 0 /\ IsNone(sent[t]) /\ IsNone(net[t])
        /\ IsSome(store[2])
        /\ IsSome(Get(store[2]).last_failure_timestamp)

\* ---------------------------------------------------------------- C13
\* C13: one execution of a delivery task makes at most one POST, whatever the
\* outcome: the POST is made in the step from queued to classified and in no
\* other, and a task goes back to the queue from no position of its run; only
\* a facade call fills a free slot.
C13_AtMostOnePost ==
    [][ \A t \in Tasks :
          /\ posts'[t] <= 1
          /\ posts'[t] > posts[t] => pc[t] = "queued" /\ pc'[t] = "classified"
          /\ pc[t] \in {"classified", "in_tx", "done", "raised"} =>
                /\ pc'[t] # "queued"
                /\ posts'[t] <= posts[t]
      ]_vars

\* An attempt that failed in transport is over after one POST.
C13_Witness ==
    \E t \in Tasks :
        /\ pc[t] = "done"
        /\ posts[t] = 1
        /\ ~Handed(t).success
        /\ GotTransportError(t)

\* ---------------------------------------------------------------- C14
\* The bodies that parse as structured data.
ParsesAsJson(body) == body \in JsonBodies \cup LongJsonBodies

\* C14: after a failed attempt has written, if the store was given a response
\* then the stored response text is the first 2000 characters of the body (the
\* whole body when it is shorter), at most 2000 long, and is_json tells whether
\* the whole body parses; if it was given no response then status code, response
\* text and is_json are null, whatever an earlier attempt left there.
C14_ResponseSnapshot ==
    \A t \in Tasks :
        (Wrote(t) /\ ~Handed(t).success) =>
            LET row == RowOf(t)
                response == Handed(t).response
            IN  IF IsSome(response)
                THEN LET body == Get(response).text
                     IN  /\ IsSome(row.last_failure_response_text)
                         /\ Len(Get(row.last_failure_response_text)) <= RESPONSE_TEXT_LIMIT
                         /\ Len(body) <= RESPONSE_TEXT_LIMIT =>
                                Get(row.last_failure_response_text) = body
                         /\ Len(body) > RESPONSE_TEXT_LIMIT =>
                                Get(row.last_failure_response_text) =
                                    SubSeq(body, 1, RESPONSE_TEXT_LIMIT)
                         /\ row.last_failure_is_json = Some(ParsesAsJson(body))
                ELSE /\ IsNone(row.last_failure_status_code)
                     /\ IsNone(row.last_failure_response_text)
                     /\ IsNone(row.last_failure_is_json)

\* A rejected attempt whose JSON body is one character longer than the limit
\* has written: the stored text is cut and is_json is true.
C14_Witness ==
    \E t \in Tasks :
        /\ Wrote(t)
        /\ GotResponse(t)
        /\ Get(Reply(t).response).text = LongJsonBody(RESPONSE_TEXT_LIMIT + 1)
        /\ Len(Get(RowOf(t).last_failure_response_text)) = RESPONSE_TEXT_LIMIT
        /\ RowOf(t).last_failure_is_json = Some(TRUE)

\* ---------------------------------------------------------------- C15
\* C15: from the step in which the facade enqueues a task to the end of its
\* run the task's arguments are the ones captured at that step; the POST goes
\* to the url of the captured credential and to the captured channel, and the
\* outcome is written to the record with the captured id and to no other,
\* whatever has been done to the records' config in between.
C15_UsesCapturedArguments ==
    [][ \A t \in Tasks :
          /\ (pc[t] # "idle" /\ pc'[t] # "idle") => args'[t] = args[t]
          /\ (pc[t] = "queued" /\ pc'[t] = "classified") =>
                /\ IsSome(sent'[t])
                /\ Get(sent'[t]).url = Url(args[t].bot_token)
                /\ Get(sent'[t]).chat_id = args[t].chat_id
          /\ (pc[t] = "in_tx" /\ pc'[t] = "done") =>
                /\ \A c \in ConfigIds \ {args[t].service_config_id} :
                      store'[c] = store[c]
                /\ IsSome(store'[args[t].service_config_id])
                /\ FailureGroup(Get(store'[args[t].service_config_id])) =
                      ExpectedGroup(Get(outcome[t]), now')
      ]_vars

\* A task enqueued for the second record has sent and written after the
\* record's credential and channel were both edited: it used the captured ones.
C15_Witness ==
    \E t \in Tasks :
        /\ Wrote(t)
        /\ args[t].service_config_id = 2
        /\ RowOf(t).config.bot_token # args[t].bot_token
        /\ RowOf(t).config.chat_id # args[t].chat_id
        /\ Get(sent[t]).url = Url(args[t].bot_token)
        /\ Get(sent[t]).chat_id = args[t].chat_id
        /\ IsSome(RowOf(t).last_failure_timestamp)

\* ---------------------------------------------------------------- C16
\* The first four lines of an alert: reason, issue title, project, URL.
FourLines(in) ==
    << in.alert_reason \o " issue",
       "Issue: " \o (IF Len(in.title) <= TITLE_LIMIT
                     THEN in.title
                     ELSE SubSeq(in.title, 1, TITLE_LIMIT - 1) \o ELLIPSIS),
       "Project: " \o in.project_name,
       "URL: " \o in.issue_url >>
UnmuteLine(in) == "Unmute reason: " \o Get(in.unmute_reason)

\* C16, as stated: for every alert the composed text is the lines reason,
\* issue title, project, URL in that order, followed by the one line
\* 'Unmute reason: <text>' when an unmute reason is supplied, and by nothing
\* when it is omitted.
C16_AlertLinesForEveryAlert ==
    (cin.kind = "alert" /\ IsSome(cout)) =>
        Get(cout) = JoinLines(FourLines(cin) \o
                        (IF IsSome(cin.unmute_reason) THEN <<UnmuteLine(cin)>> ELSE << >>))

\* C16, amended: for every alert whose lines joined by newlines are at most
\* 4000 characters long, the composed text is the lines reason, issue title,
\* project, URL in that order, followed by the one line 'Unmute reason: <text>'
\* when a non-empty unmute reason is supplied, and by nothing when it is
\* omitted or empty.
C16_AlertLinesWithinLimit ==
    (cin.kind = "alert" /\ IsSome(cout)) =>
        LET supplied == IsSome(cin.unmute_reason) /\ Len(Get(cin.unmute_reason)) > 0
            lines == FourLines(cin) \o (IF supplied THEN <<UnmuteLine(cin)>> ELSE << >>)
        IN  Len(JoinLines(lines)) <= MAX_MESSAGE_LENGTH => Get(cout) = JoinLines(lines)

\* An alert with a title over the title limit and an unmute reason has been
\* composed within the message limit.
C16_Witness ==
    /\ cin.kind = "alert"
    /\ Len(cin.title) = TITLE_LIMIT + 1
    /\ cin.unmute_reason = Some("More than 5 events per minute")
    /\ IsSome(cout)
    /\ Len(Get(cout)) < MAX_MESSAGE_LENGTH
    /\ Len(Get(cout)) > Len(JoinLines(FourLines(cin)))

\* ---------------------------------------------------------------- C17
\* C17: the failure snapshot a failed attempt has written is the one the same
\* attempt would have written with any other bot token and the same reply of
\* the remote endpoint, the timestamp aside.
C17_SnapshotIndependentOfToken ==
    \A t \in Tasks :
        (Wrote(t) /\ ~Handed(t).success) =>
            \A b \in BotTokens :
                LET other == Classify(b, Reply(t))
                IN  /\ ~other.success
                    /\ FailureGroup(RowOf(t)) =
                          ExpectedGroup(other, Get(RowOf(t).last_failure_timestamp))

\* ---------------------------------------------------------------- C18
\* C18: a configuration record that has been deleted is never there again:
\* no step of a task, at any point of its run, takes the store from a state
\* without the record to a state with it.
C18_DeletedStaysDeleted ==
    [][ \A c \in ConfigIds : IsNone(store[c]) => IsNone(store'[c]) ]_vars

\* The record was deleted after the task was enqueued and before its outcome
\* write; the task has sent, found no record and ended without writing.
C18_Witness ==
    \E t \in Tasks :
        /\ pc[t] = "done"
        /\ posts[t] = 1
        /\ ~Handed(t).success
        /\ writes[t] = 0
        /\ IsNone(store[args[t].service_config_id])

\* ---------------------------------------------------------------- C19
\* The step in which task t commits its outcome write.
OutcomeWrite(t) == pc[t] = "in_tx" /\ pc'[t] = "done"

\* C19: the step in which a task commits its outcome write leaves the config
\* blob and the display name of the record with the task's correlation id as
\* they are in the store at that step, also when they were edited after the
\* task was enqueued, and leaves every other record unchanged.
C19_WriteTouchesOnlyFailureFields ==
    [][ \A t \in Tasks :
          OutcomeWrite(t) =>
              LET c == args[t].service_config_id
              IN  /\ IsSome(store[c]) /\ IsSome(store'[c])
                  /\ Get(store'[c]).config = Get(store[c]).config
                  /\ Get(store'[c]).display_name = Get(store[c]).display_name
                  /\ \A d \in ConfigIds \ {c} : store'[d] = store[d]
      ]_vars

\* A delivery for the first record has succeeded and cleared its failure
\* fields after the record's credential was edited; the edited credential is
\* in the store and the second record still holds its failure snapshot.
C19_Witness ==
    \E t \in Tasks :
        /\ Wrote(t)
        /\ Handed(t).success
        /\ args[t].service_config_id = 1
        /\ RowOf(t).config.bot_token # args[t].bot_token
        /\ IsNone(RowOf(t).last_failure_timestamp)
        /\ IsSome(store[2])
        /\ IsSome(Get(store[2]).last_failure_timestamp)

====
